---- MODULE Spec2Model ----
(***************************************************************************)
(* TCP <-> serial bridge (tools/simulide/tcp-serial-bridge.py).            *)
(*                                                                         *)
(* main() opens the serial port, connects the socket, starts two daemon    *)
(* threads (tcp_to_serial, serial_to_tcp) and sleeps in a loop until       *)
(* KeyboardInterrupt; its finally block closes the socket and the serial   *)
(* port.  The model is the interleaving of the controller (main), the two  *)
(* forwarding threads and the environment (TCP peer, serial device).       *)
(***************************************************************************)
EXTENDS Integers, Sequences, FiniteSets, TLC

\* ---------------------------------------------------------------- bounds
\* Bytes the peer of one direction may send during a run.
MaxBytes == 3
\* recv(1024): the size limit of one socket read, scaled to the model.
ChunkSize == 2
\* The count of empty serial polls saturates here.
MaxPolls == 1
\* Most non-empty chunks the test client's peer sends.
MaxRounds == 2

T2S == "T2S"
S2T == "S2T"
Dir == {T2S, S2T}

VARIABLES
    ctl,        \* position of main()
    reason,     \* why main() left: none / serial_failed / tcp_failed / interrupted
    ser,        \* serial port: none / open / closed
    sock,       \* socket: none / created (never connected) / open / closed
    closes,     \* number of close() calls made on each endpoint
    tpc,        \* position of each forwarding thread
    cause,      \* how a thread ended: none / eof / io / closed
    buf,        \* the chunk a thread holds (what of it is not yet written)
    nreq,       \* serial_to_tcp: the value of ser.in_waiting passed to ser.read
    src,        \* bytes waiting at each direction's source
    peerClosed, \* the TCP peer has closed the connection
    rd,         \* per direction, the results of the reads so far
    wr,         \* per direction, the arguments of the write calls so far
    dst,        \* per direction, the bytes the destination has accepted
    polls,      \* serial polls that found nothing waiting (saturating)
    acc,        \* per thread, the (endpoint, operation) pairs it has used
    \* tcp_test_client.py
    cpc,        \* position of the test client's main
    csock,      \* the client's socket s: "none", "created", "connected", "closed"
    ccloses,    \* number of s.close() calls
    data,       \* result of the last s.recv: "none", "chunk", "empty"
    msg,        \* the line the last input() returned
    tx,         \* what the client has passed to s.sendall, in order
    rxn,        \* number of non-empty chunks received
    exitPath    \* how the client's try block was left

vars == <<ctl, reason, ser, sock, closes, tpc, cause, buf, nreq, src,
          peerClosed, rd, wr, dst, polls, acc,
          cpc, csock, ccloses, data, msg, tx, rxn, exitPath>>

ctlVars == <<ctl, reason, ser, sock, closes>>
envVars == <<src, peerClosed>>
clientVars == <<cpc, csock, ccloses, data, msg, tx, rxn, exitPath>>

\* ---------------------------------------------------------------- helpers
Min(a, b) == IF a < b THEN a ELSE b

RECURSIVE Flatten(_)
Flatten(ss) == IF ss = <<>> THEN <<>> ELSE Head(ss) \o Flatten(Tail(ss))

Take(s, n) == SubSeq(s, 1, n)
Drop(s, n) == SubSeq(s, n + 1, Len(s))

IsPrefix(p, s) == Len(p) <= Len(s) /\ Take(s, Len(p)) = p

\* Bytes the environment has put into direction d so far.
Sent(d) == Len(Flatten(rd[d])) + Len(src[d])

\* The bridge never looks at a byte's value (line 21 tests emptiness only),
\* so the n-th byte a peer sends is taken to be n: all bytes of a stream are
\* distinct, and any reordering, repetition or change of them shows.
NextByte(d) == Sent(d) + 1

\* A thread that was started and has neither returned nor been killed.
Running(d) == tpc[d] \notin {"idle", "done", "killed"}

\* The terminal outcome of a forwarding thread.
Outcome(d) ==
    IF tpc[d] # "done" THEN "pending"
    ELSE IF cause[d] = "eof" THEN "Closed" ELSE "Error"

\* ---------------------------------------------------------------- Init
Init ==
    /\ ctl = "open_serial"
    /\ reason = "none"
    /\ ser = "none"
    /\ sock = "none"
    /\ closes = [e \in {"ser", "sock"} |-> 0]
    /\ tpc = [d \in Dir |-> "idle"]
    /\ cause = [d \in Dir |-> "none"]
    /\ buf = [d \in Dir |-> <<>>]
    /\ nreq = 0
    /\ src = [d \in Dir |-> <<>>]
    /\ peerClosed = FALSE
    /\ rd = [d \in Dir |-> <<>>]
    /\ wr = [d \in Dir |-> <<>>]
    /\ dst = [d \in Dir |-> <<>>]
    /\ polls = 0
    /\ acc = [d \in Dir |-> {}]
    /\ cpc = "socket"
    /\ csock = "none"
    /\ ccloses = 0
    /\ data = "none"
    /\ msg = <<>>
    /\ tx = <<>>
    /\ rxn = 0
    /\ exitPath = "none"

\* ---------------------------------------------------------------- environment
\* The TCP peer sends one byte: it waits in the socket's receive buffer.
PeerSend ==
    /\ sock = "open" /\ ~peerClosed
    /\ Sent(T2S) < MaxBytes
    /\ src' = [src EXCEPT ![T2S] = Append(@, NextByte(T2S))]
    /\ UNCHANGED <<ctlVars, tpc, cause, buf, nreq, peerClosed, rd, wr, dst, polls,
                   acc>>
    /\ UNCHANGED clientVars

\* The TCP peer closes the connection.
PeerClose ==
    /\ sock = "open" /\ ~peerClosed
    /\ peerClosed' = TRUE
    /\ UNCHANGED <<ctlVars, tpc, cause, buf, nreq, src, rd, wr, dst, polls,
                   acc>>
    /\ UNCHANGED clientVars

\* The serial device sends one byte: it waits in the port's input buffer.
DeviceSend ==
    /\ ser = "open"
    /\ Sent(S2T) < MaxBytes
    /\ src' = [src EXCEPT ![S2T] = Append(@, NextByte(S2T))]
    /\ UNCHANGED <<ctlVars, tpc, cause, buf, nreq, peerClosed, rd, wr, dst, polls,
                   acc>>
    /\ UNCHANGED clientVars


\* ---------------------------------------------------------------- threads
\* A thread's except clause: print the error and return.
Raise(d, why) ==
    /\ tpc' = [tpc EXCEPT ![d] = "done"]
    /\ cause' = [cause EXCEPT ![d] = why]

\* An operation on an endpoint the controller has closed raises.
Fails(d, e) ==
    /\ e = "closed"
    /\ Raise(d, "closed")

\* The endpoint thread d is operating on at its position, if any.
OpEndpoint(d) ==
    CASE tpc[d] \in {"recv", "sending"} -> sock
      [] tpc[d] \in {"writing", "poll", "size", "read"} -> ser
      [] OTHER -> "none"

\* Access with a slip: serial_to_tcp sends what it read back to the serial
\* port (ser.write where tcp_conn.sendall is meant).
AccessEcho(d) ==
    CASE tpc[d] = "recv" -> <<"sock", "read">>
      [] tpc[d] \in {"write", "writing"} -> <<"ser", "write">>
      [] tpc[d] \in {"poll", "size", "read"} -> <<"ser", "read">>
      [] tpc[d] \in {"send", "sending"} -> <<"ser", "write">>
      [] OTHER -> <<"none", "none">>

\* The endpoint and the kind of operation of the call thread d makes at its
\* position: tcp_conn.recv (20), ser.write (23), ser.in_waiting and ser.read
\* (32-33), tcp_conn.sendall (34).
Access(d) ==
    CASE tpc[d] = "recv" -> <<"sock", "read">>
      [] tpc[d] \in {"write", "writing"} -> <<"ser", "write">>
      [] tpc[d] \in {"poll", "size", "read"} -> <<"ser", "read">>
      [] tpc[d] \in {"send", "sending"} -> <<"sock", "write">>
      [] OTHER -> <<"none", "none">>

\* Thread d makes the call of its position.
Uses(d) == acc' = [acc EXCEPT ![d] = @ \cup {Access(d)}]

\* A device fault: the operation thread d is in raises though its endpoint
\* is open (connection reset, broken pipe, serial device lost).
IoFault(d) ==
    /\ OpEndpoint(d) = "open"
    /\ Raise(d, "io")
    /\ Uses(d)
    /\ UNCHANGED <<ctlVars, buf, nreq, envVars, rd, wr, dst, polls>>
    /\ UNCHANGED clientVars

\* Accept with a slip: after a partial write the retry starts again at the
\* head of the chunk that was passed to the call.
AcceptFromHead(d, k) ==
    /\ dst' = [dst EXCEPT ![d] = @ \o Take(wr[d][Len(wr[d])], k)]
    /\ buf' = [buf EXCEPT ![d] = Drop(@, k)]

\* The destination accepts the next k bytes of the chunk being written.
Accept(d, k) ==
    /\ dst' = [dst EXCEPT ![d] = @ \o Take(buf[d], k)]
    /\ buf' = [buf EXCEPT ![d] = Drop(@, k)]

\* tcp_to_serial, line 20: data = tcp_conn.recv(1024)
TcpRecv ==
    /\ tpc[T2S] = "recv"
    /\ \/ /\ sock = "open" /\ src[T2S] # <<>>
          /\ \E n \in 1..Min(Len(src[T2S]), ChunkSize) :
                /\ buf' = [buf EXCEPT ![T2S] = Take(src[T2S], n)]
                /\ src' = [src EXCEPT ![T2S] = Drop(@, n)]
                /\ rd' = [rd EXCEPT ![T2S] = Append(@, Take(src[T2S], n))]
          /\ tpc' = [tpc EXCEPT ![T2S] = "test"]
          /\ UNCHANGED cause
       \/ /\ sock = "open" /\ src[T2S] = <<>> /\ peerClosed
          /\ buf' = [buf EXCEPT ![T2S] = <<>>]
          /\ rd' = [rd EXCEPT ![T2S] = Append(@, <<>>)]
          /\ tpc' = [tpc EXCEPT ![T2S] = "test"]
          /\ UNCHANGED <<cause, src>>
       \/ /\ Fails(T2S, sock)
          /\ UNCHANGED <<buf, src, rd>>
    /\ Uses(T2S)
    /\ UNCHANGED <<ctlVars, nreq, peerClosed, wr, dst, polls>>
    /\ UNCHANGED clientVars

\* TcpTest with a slip: the emptiness test is missing, the loop goes on to
\* the write whatever recv returned.
TcpTestNoBreak ==
    /\ tpc[T2S] = "test"
    /\ tpc' = [tpc EXCEPT ![T2S] = "write"]
    /\ UNCHANGED <<ctlVars, cause, buf, nreq, envVars, rd, wr, dst, polls, acc>>
    /\ UNCHANGED clientVars

\* TcpTest with a slip: an empty result of recv is treated as a failure
\* (raise instead of break).
TcpTestRaisesOnEmpty ==
    /\ tpc[T2S] = "test"
    /\ IF buf[T2S] = <<>>
         THEN Raise(T2S, "io")
         ELSE tpc' = [tpc EXCEPT ![T2S] = "write"] /\ UNCHANGED cause
    /\ UNCHANGED <<ctlVars, buf, nreq, envVars, rd, wr, dst, polls, acc>>
    /\ UNCHANGED clientVars

\* TcpTest with a slip: the thread closes its socket itself before it leaves
\* the loop (tcp_conn.close() before break).
TcpTestClosesOnBreak ==
    /\ tpc[T2S] = "test"
    /\ IF buf[T2S] = <<>>
         THEN /\ Raise(T2S, "eof")
              /\ sock' = "closed"
              /\ closes' = [closes EXCEPT !["sock"] = @ + 1]
         ELSE /\ tpc' = [tpc EXCEPT ![T2S] = "write"]
              /\ UNCHANGED <<cause, sock, closes>>
    /\ UNCHANGED <<ctl, reason, ser, buf, nreq, envVars, rd, wr, dst, polls, acc>>
    /\ UNCHANGED clientVars

\* tcp_to_serial, lines 21-22: if not data: break
TcpTest ==
    /\ tpc[T2S] = "test"
    /\ IF buf[T2S] = <<>>
         THEN Raise(T2S, "eof")
         ELSE tpc' = [tpc EXCEPT ![T2S] = "write"] /\ UNCHANGED cause
    /\ UNCHANGED <<ctlVars, buf, nreq, envVars, rd, wr, dst, polls, acc>>
    /\ UNCHANGED clientVars

\* tcp_to_serial, line 23: ser.write(data) is called.
TcpWriteCall ==
    /\ tpc[T2S] = "write"
    /\ wr' = [wr EXCEPT ![T2S] = Append(@, buf[T2S])]
    /\ tpc' = [tpc EXCEPT ![T2S] = "writing"]
    /\ Uses(T2S)
    /\ UNCHANGED <<ctlVars, cause, buf, nreq, envVars, rd, dst, polls>>
    /\ UNCHANGED clientVars

\* Inside ser.write: the port takes part of the data, the call goes on until
\* all of it is taken (then line 24 and back to line 20) or it raises.
TcpWriting ==
    /\ tpc[T2S] = "writing"
    /\ \/ /\ ser = "open"
          /\ \E k \in 1..Len(buf[T2S]) :
                /\ Accept(T2S, k)
                /\ tpc' = [tpc EXCEPT ![T2S] =
                             IF k = Len(buf[T2S]) THEN "recv" ELSE "writing"]
          /\ UNCHANGED cause
       \/ /\ Fails(T2S, ser)
          /\ UNCHANGED <<buf, dst>>
    /\ UNCHANGED <<ctlVars, nreq, envVars, rd, wr, polls, acc>>
    /\ UNCHANGED clientVars

\* SerPoll with a slip: nothing waiting is taken for the end of the stream
\* (else: break).
SerPollBreaksOnEmpty ==
    /\ tpc[S2T] = "poll"
    /\ \/ /\ ser = "open" /\ src[S2T] # <<>>
          /\ tpc' = [tpc EXCEPT ![S2T] = "size"]
          /\ UNCHANGED <<cause, polls>>
       \/ /\ ser = "open" /\ src[S2T] = <<>>
          /\ Raise(S2T, "eof")
          /\ polls' = Min(polls + 1, MaxPolls)
       \/ /\ Fails(S2T, ser)
          /\ UNCHANGED polls
    /\ Uses(S2T)
    /\ UNCHANGED <<ctlVars, buf, nreq, envVars, rd, wr, dst>>
    /\ UNCHANGED clientVars

\* serial_to_tcp, line 32: if ser.in_waiting:
SerPoll ==
    /\ tpc[S2T] = "poll"
    /\ \/ /\ ser = "open" /\ src[S2T] # <<>>
          /\ tpc' = [tpc EXCEPT ![S2T] = "size"]
          /\ UNCHANGED <<cause, polls>>
       \/ /\ ser = "open" /\ src[S2T] = <<>>
          /\ tpc' = [tpc EXCEPT ![S2T] = "sleep"]
          /\ polls' = Min(polls + 1, MaxPolls)
          /\ UNCHANGED cause
       \/ /\ Fails(S2T, ser)
          /\ UNCHANGED polls
    /\ Uses(S2T)
    /\ UNCHANGED <<ctlVars, buf, nreq, envVars, rd, wr, dst>>
    /\ UNCHANGED clientVars

\* serial_to_tcp, line 33: the argument ser.in_waiting is evaluated (again).
SerSize ==
    /\ tpc[S2T] = "size"
    /\ \/ /\ ser = "open"
          /\ nreq' = Len(src[S2T])
          /\ tpc' = [tpc EXCEPT ![S2T] = "read"]
          /\ UNCHANGED cause
       \/ /\ Fails(S2T, ser)
          /\ UNCHANGED nreq
    /\ Uses(S2T)
    /\ UNCHANGED <<ctlVars, buf, envVars, rd, wr, dst, polls>>
    /\ UNCHANGED clientVars

\* serial_to_tcp, line 33: data = ser.read(n), the n bytes are waiting.
SerRead ==
    /\ tpc[S2T] = "read"
    /\ \/ /\ ser = "open"
          /\ buf' = [buf EXCEPT ![S2T] = Take(src[S2T], nreq)]
          /\ src' = [src EXCEPT ![S2T] = Drop(@, nreq)]
          /\ rd' = [rd EXCEPT ![S2T] = Append(@, Take(src[S2T], nreq))]
          /\ tpc' = [tpc EXCEPT ![S2T] = "send"]
          /\ UNCHANGED cause
       \/ /\ Fails(S2T, ser)
          /\ UNCHANGED <<buf, src, rd>>
    /\ Uses(S2T)
    /\ UNCHANGED <<ctlVars, nreq, peerClosed, wr, dst, polls>>
    /\ UNCHANGED clientVars

\* SerSendCall with a slip: the chunk is passed to sendall and, the call
\* being repeated, once more.
SerSendCallTwice ==
    /\ tpc[S2T] = "send"
    /\ wr' = [wr EXCEPT ![S2T] = Append(Append(@, buf[S2T]), buf[S2T])]
    /\ tpc' = [tpc EXCEPT ![S2T] = "sending"]
    /\ Uses(S2T)
    /\ UNCHANGED <<ctlVars, cause, buf, nreq, envVars, rd, dst, polls>>
    /\ UNCHANGED clientVars

\* serial_to_tcp, line 34: tcp_conn.sendall(data) is called.
SerSendCall ==
    /\ tpc[S2T] = "send"
    /\ wr' = [wr EXCEPT ![S2T] = Append(@, buf[S2T])]
    /\ tpc' = [tpc EXCEPT ![S2T] = "sending"]
    /\ Uses(S2T)
    /\ UNCHANGED <<ctlVars, cause, buf, nreq, envVars, rd, dst, polls>>
    /\ UNCHANGED clientVars

\* SerSending with a slip: send in place of sendall, the call returns after
\* the first part the socket takes and the rest of the chunk is dropped.
SerSendingOnce ==
    /\ tpc[S2T] = "sending"
    /\ \/ /\ sock = "open"
          /\ \E k \in 1..Len(buf[S2T]) :
                /\ Accept(S2T, k)
                /\ tpc' = [tpc EXCEPT ![S2T] = "sleep"]
          /\ UNCHANGED cause
       \/ /\ Fails(S2T, sock)
          /\ UNCHANGED <<buf, dst>>
    /\ UNCHANGED <<ctlVars, nreq, envVars, rd, wr, polls, acc>>
    /\ UNCHANGED clientVars

\* Inside sendall: the socket takes part of the data, the call goes on until
\* all of it is taken (then lines 35-36) or it raises.
SerSending ==
    /\ tpc[S2T] = "sending"
    /\ \/ /\ sock = "open"
          /\ \E k \in 1..Len(buf[S2T]) :
                /\ Accept(S2T, k)
                /\ tpc' = [tpc EXCEPT ![S2T] =
                             IF k = Len(buf[S2T]) THEN "sleep" ELSE "sending"]
          /\ UNCHANGED cause
       \/ /\ Fails(S2T, sock)
          /\ UNCHANGED <<buf, dst>>
    /\ UNCHANGED <<ctlVars, nreq, envVars, rd, wr, polls, acc>>
    /\ UNCHANGED clientVars

\* SerSleep with a slip: the try sits inside the while loop, so that after
\* the except clause the loop goes round again.
SerSleepRetry ==
    /\ tpc[S2T] \in {"sleep", "done"}
    /\ tpc' = [tpc EXCEPT ![S2T] = "poll"]
    /\ UNCHANGED <<ctlVars, cause, buf, nreq, envVars, rd, wr, dst, polls, acc>>
    /\ UNCHANGED clientVars

\* SerSleep with a slip: the body is not in a loop, the function returns
\* after one pass (while True: missing).
SerSleepReturns ==
    /\ tpc[S2T] = "sleep"
    /\ Raise(S2T, "eof")
    /\ UNCHANGED <<ctlVars, buf, nreq, envVars, rd, wr, dst, polls, acc>>
    /\ UNCHANGED clientVars

\* serial_to_tcp, line 36: time.sleep(0.01) returns, next iteration.
SerSleep ==
    /\ tpc[S2T] = "sleep"
    /\ tpc' = [tpc EXCEPT ![S2T] = "poll"]
    /\ UNCHANGED <<ctlVars, cause, buf, nreq, envVars, rd, wr, dst, polls, acc>>
    /\ UNCHANGED clientVars

\* ---------------------------------------------------------------- controller
taskVars == <<tpc, cause, buf, nreq, rd, wr, dst, polls, acc>>

\* main, lines 49-51: serial.Serial(...) succeeds.
OpenSerialOk ==
    /\ ctl = "open_serial"
    /\ ser' = "open"
    /\ ctl' = "connect"
    /\ UNCHANGED <<reason, sock, closes, taskVars, envVars>>
    /\ UNCHANGED clientVars

\* main, lines 52-54: serial.Serial(...) raises; return.
OpenSerialFail ==
    /\ ctl = "open_serial"
    /\ ctl' = "exited"
    /\ reason' = "serial_failed"
    /\ UNCHANGED <<ser, sock, closes, taskVars, envVars>>
    /\ UNCHANGED clientVars

\* main, lines 58-61: the socket is created and connected.
ConnectOk ==
    /\ ctl = "connect"
    /\ sock' = "open"
    /\ ctl' = "start_t1"
    /\ UNCHANGED <<reason, ser, closes, taskVars, envVars>>
    /\ UNCHANGED clientVars

\* ConnectFail with a slip: the handler returns without ser.close().
ConnectFailLeak ==
    /\ ctl = "connect"
    /\ sock' = "created"
    /\ ctl' = "exited"
    /\ reason' = "tcp_failed"
    /\ UNCHANGED <<ser, closes, taskVars, envVars>>
    /\ UNCHANGED clientVars

\* main, lines 62-65: connect raises; ser.close(); return.  The socket
\* object was never connected and is dropped with main's frame.
ConnectFail ==
    /\ ctl = "connect"
    /\ sock' = "created"
    /\ ser' = "closed"
    /\ closes' = [closes EXCEPT !["ser"] = @ + 1]
    /\ ctl' = "exited"
    /\ reason' = "tcp_failed"
    /\ UNCHANGED <<taskVars, envVars>>
    /\ UNCHANGED clientVars

\* main, lines 71 and 74: t1.start()
StartT1 ==
    /\ ctl = "start_t1"
    /\ tpc' = [tpc EXCEPT ![T2S] = "recv"]
    /\ ctl' = "start_t2"
    /\ UNCHANGED <<reason, ser, sock, closes, cause, buf, nreq, rd, wr, dst,
                   polls, acc, envVars>>
    /\ UNCHANGED clientVars

\* main, lines 72 and 75: t2.start()
StartT2 ==
    /\ ctl = "start_t2"
    /\ tpc' = [tpc EXCEPT ![S2T] = "poll"]
    /\ ctl' = "loop"
    /\ UNCHANGED <<reason, ser, sock, closes, cause, buf, nreq, rd, wr, dst,
                   polls, acc, envVars>>
    /\ UNCHANGED clientVars

\* main, lines 78-79: while True: time.sleep(1) is entered.
WaitLoop ==
    /\ ctl = "loop"
    /\ ctl' = "sleep"
    /\ UNCHANGED <<reason, ser, sock, closes, taskVars, envVars>>
    /\ UNCHANGED clientVars

\* main, line 79: time.sleep(1) returns.
WaitWake ==
    /\ ctl = "sleep"
    /\ ctl' = "loop"
    /\ UNCHANGED <<reason, ser, sock, closes, taskVars, envVars>>
    /\ UNCHANGED clientVars

\* main, lines 80-81: KeyboardInterrupt in the wait loop.
Interrupt ==
    /\ ctl \in {"loop", "sleep"}
    /\ ctl' = "close_sock"
    /\ reason' = "interrupted"
    /\ UNCHANGED <<ser, sock, closes, taskVars, envVars>>
    /\ UNCHANGED clientVars

\* main, line 83: sock.close()
CloseSock ==
    /\ ctl = "close_sock"
    /\ sock' = "closed"
    /\ closes' = [closes EXCEPT !["sock"] = @ + 1]
    /\ ctl' = "close_ser"
    /\ UNCHANGED <<reason, ser, taskVars, envVars>>
    /\ UNCHANGED clientVars

\* CloseSer with a slip: the finally block calls sock.close() a second time
\* where it should call ser.close().
CloseSockAgain ==
    /\ ctl = "close_ser"
    /\ sock' = "closed"
    /\ closes' = [closes EXCEPT !["sock"] = @ + 1]
    /\ ctl' = "stopped"
    /\ UNCHANGED <<reason, ser, taskVars, envVars>>
    /\ UNCHANGED clientVars

\* main, lines 84-85: ser.close(); print("Bridge stopped.")
CloseSer ==
    /\ ctl = "close_ser"
    /\ ser' = "closed"
    /\ closes' = [closes EXCEPT !["ser"] = @ + 1]
    /\ ctl' = "stopped"
    /\ UNCHANGED <<reason, sock, taskVars, envVars>>
    /\ UNCHANGED clientVars

\* main returns and the interpreter exits: daemon threads (lines 71-72,
\* daemon=True) that are still running are abandoned where they are.
Exit ==
    /\ ctl = "stopped"
    /\ ctl' = "exited"
    /\ tpc' = [d \in Dir |-> IF Running(d) THEN "killed" ELSE tpc[d]]
    /\ UNCHANGED <<reason, ser, sock, closes, cause, buf, nreq, rd, wr, dst,
                   polls, acc, envVars>>
    /\ UNCHANGED clientVars

\* ---------------------------------------------------------------- system
Env == PeerSend \/ PeerClose \/ DeviceSend \/ \E d \in Dir : IoFault(d)

TcpToSerial == TcpRecv \/ TcpTest \/ TcpWriteCall \/ TcpWriting

SerialToTcp == SerPoll \/ SerSize \/ SerRead \/ SerSendCall \/ SerSending \/ SerSleep

Main ==
    \/ OpenSerialOk \/ OpenSerialFail \/ ConnectOk \/ ConnectFail
    \/ StartT1 \/ StartT2 \/ WaitLoop \/ WaitWake
    \/ CloseSock \/ CloseSer \/ Exit

Next ==
    \/ PeerSend \/ PeerClose \/ DeviceSend
    \/ \E d \in Dir : IoFault(d)
    \/ TcpRecv \/ TcpTest \/ TcpWriteCall \/ TcpWriting
    \/ SerPoll \/ SerSize \/ SerRead \/ SerSendCall \/ SerSending \/ SerSleep
    \/ OpenSerialOk \/ OpenSerialFail \/ ConnectOk \/ ConnectFail
    \/ StartT1 \/ StartT2 \/ WaitLoop \/ WaitWake \/ Interrupt
    \/ CloseSock \/ CloseSer \/ Exit

Spec == Init /\ [][Next]_vars

\* The scheduler runs every thread that can take a step; the interrupt, the
\* peers and device faults are external and nothing obliges them to happen.
FairSpec ==
    /\ Spec
    /\ WF_vars(Main)
    /\ WF_vars(TcpToSerial)
    /\ WF_vars(SerialToTcp)

TypeOK ==
    /\ ctl \in {"open_serial", "connect", "start_t1", "start_t2", "loop",
                "sleep", "close_sock", "close_ser", "stopped", "exited"}
    /\ reason \in {"none", "serial_failed", "tcp_failed", "interrupted"}
    /\ ser \in {"none", "open", "closed"}
    /\ sock \in {"none", "created", "open", "closed"}
    /\ \A d \in Dir : cause[d] \in {"none", "eof", "io", "closed"}
    /\ \A d \in Dir : Sent(d) <= MaxBytes
    /\ polls \in 0..MaxPolls

\* ---------------------------------------------------------------- test client
\* tcp_test_client.py.  A line of input is a sequence of characters.
bridgeVars == <<ctlVars, taskVars, envVars>>

\* str.lower() on one character.
Lower(c) ==
    CASE c = "Q" -> "q" [] c = "U" -> "u" [] c = "I" -> "i" [] c = "T" -> "t"
      [] c = "E" -> "e" [] c = "X" -> "x" [] OTHER -> c

LowerStr(m) == [i \in 1..Len(m) |-> Lower(m[i])]

\* str.strip(): leading and trailing white space removed.
RECURSIVE LStrip(_)
LStrip(m) == IF m # <<>> /\ Head(m) = " " THEN LStrip(Tail(m)) ELSE m

RECURSIVE RStrip(_)
RStrip(m) == IF m # <<>> /\ m[Len(m)] = " " THEN RStrip(SubSeq(m, 1, Len(m) - 1)) ELSE m

Strip(m) == RStrip(LStrip(m))

\* Line 27: msg.strip().lower() in ('quit', 'exit')
IsQuit(m) == LowerStr(Strip(m)) \in {<<"q", "u", "i", "t">>, <<"e", "x", "i", "t">>}

\* The lines the user may type at the prompt.
Lines ==
    { <<"h", "i">>, <<>>, <<" ">>,
      <<"q", "u", "i", "t">>, <<"e", "x", "i", "t">>,
      <<" ", "Q", "u", "i", "t", " ">>, <<"E", "X", "I", "T">>,
      <<"q", "u", "i", "t", "e">>, <<"q", " ", "u", "i", "t">> }

CRLF == <<"\r", "\n">>

\* Line 17: the handshake.
Hello == <<"Hello from python client">> \o CRLF

\* Positions inside the try block (lines 15-29).
TryPositions == {"connect", "hello", "recv", "test", "input", "check", "send"}

\* The try block is left: the handler (if any) has run, finally is next.
Leave(path) ==
    /\ exitPath' = path
    /\ cpc' = "finally"

\* Line 13: s = socket.socket(...)
ClientSocket ==
    /\ cpc = "socket"
    /\ csock' = "created"
    /\ cpc' = "connect"
    /\ UNCHANGED <<ccloses, data, msg, tx, rxn, exitPath, bridgeVars>>

\* Lines 15-16: s.connect succeeds.
ClientConnectOk ==
    /\ cpc = "connect"
    /\ csock' = "connected"
    /\ cpc' = "hello"
    /\ UNCHANGED <<ccloses, data, msg, tx, rxn, exitPath, bridgeVars>>

\* Lines 15, 31-32: s.connect raises ConnectionRefusedError.
ClientConnectRefused ==
    /\ cpc = "connect"
    /\ Leave("refused")
    /\ UNCHANGED <<csock, ccloses, data, msg, tx, rxn, bridgeVars>>

\* Lines 15, 20, 26: connect, recv or input raises an exception no except
\* clause names (timeout, connection reset, EOFError).
ClientRaise ==
    /\ cpc \in {"connect", "recv", "input"}
    /\ Leave("error")
    /\ UNCHANGED <<csock, ccloses, data, msg, tx, rxn, bridgeVars>>

\* Line 17: s.sendall(handshake); it returns or raises.
ClientHello ==
    /\ cpc = "hello"
    /\ tx' = Append(tx, Hello)
    /\ \/ cpc' = "recv" /\ UNCHANGED exitPath
       \/ Leave("error")
    /\ UNCHANGED <<csock, ccloses, data, msg, rxn, bridgeVars>>

\* Line 20: data = s.recv(1024)
ClientRecv ==
    /\ cpc = "recv"
    /\ \/ rxn < MaxRounds /\ data' = "chunk" /\ rxn' = rxn + 1
       \/ data' = "empty" /\ UNCHANGED rxn
    /\ cpc' = "test"
    /\ UNCHANGED <<csock, ccloses, msg, tx, exitPath, bridgeVars>>

\* Lines 21-24: if not data: print; break
ClientTest ==
    /\ cpc = "test"
    /\ IF data = "empty"
         THEN Leave("peer_closed")
         ELSE cpc' = "input" /\ UNCHANGED exitPath
    /\ UNCHANGED <<csock, ccloses, data, msg, tx, rxn, bridgeVars>>

\* Line 26: msg = input('send> ')
ClientInput ==
    /\ cpc = "input"
    /\ \E m \in Lines : msg' = m
    /\ cpc' = "check"
    /\ UNCHANGED <<csock, ccloses, data, tx, rxn, exitPath, bridgeVars>>

\* Lines 27-28: if msg.strip().lower() in ('quit', 'exit'): break
ClientCheck ==
    /\ cpc = "check"
    /\ IF IsQuit(msg)
         THEN Leave("quit")
         ELSE cpc' = "send" /\ UNCHANGED exitPath
    /\ UNCHANGED <<csock, ccloses, data, msg, tx, rxn, bridgeVars>>

\* Line 29: s.sendall((msg + '\r\n').encode()); it returns or raises.
ClientSend ==
    /\ cpc = "send"
    /\ tx' = Append(tx, msg \o CRLF)
    /\ \/ cpc' = "recv" /\ UNCHANGED exitPath
       \/ Leave("error")
    /\ UNCHANGED <<csock, ccloses, data, msg, rxn, bridgeVars>>

\* ClientInterrupt with a slip: the handler leaves main without the finally
\* clause (s.close() only at the end of the try body).
ClientInterruptNoClose ==
    /\ cpc \in TryPositions
    /\ exitPath' = "interrupted"
    /\ cpc' = "returned"
    /\ UNCHANGED <<csock, ccloses, data, msg, tx, rxn, bridgeVars>>

\* Lines 33-34: KeyboardInterrupt anywhere in the try block.
ClientInterrupt ==
    /\ cpc \in TryPositions
    /\ Leave("interrupted")
    /\ UNCHANGED <<csock, ccloses, data, msg, tx, rxn, bridgeVars>>

\* Lines 35-36: finally: s.close(); then main returns, or the exception that
\* no clause handled goes on to the caller.
ClientFinally ==
    /\ cpc = "finally"
    /\ csock' = "closed"
    /\ ccloses' = ccloses + 1
    /\ cpc' = IF exitPath = "error" THEN "raised" ELSE "returned"
    /\ UNCHANGED <<data, msg, tx, rxn, exitPath, bridgeVars>>

ClientNext ==
    \/ ClientSocket \/ ClientConnectOk \/ ClientConnectRefused \/ ClientRaise
    \/ ClientHello \/ ClientRecv \/ ClientTest \/ ClientInput \/ ClientCheck
    \/ ClientSend \/ ClientInterrupt \/ ClientFinally

ClientSpec == Init /\ [][ClientNext]_vars

ClientTypeOK ==
    /\ cpc \in TryPositions \cup {"socket", "finally", "returned", "raised"}
    /\ csock \in {"none", "created", "connected", "closed"}
    /\ data \in {"none", "chunk", "empty"}
    /\ msg \in Lines
    /\ rxn \in 0..MaxRounds
    /\ exitPath \in {"none", "refused", "peer_closed", "quit", "interrupted", "error"}

\* ---------------------------------------------------------------- properties
\* The endpoint a direction writes to.
Dest(d) == IF d = T2S THEN ser ELSE sock

\* All the bytes direction d has read from its source, in order.
ReadSoFar(d) == Flatten(rd[d])

\* Thread d has read a chunk and has not finished writing it.
HoldsChunk(d) ==
    /\ tpc[d] \in {"test", "write", "writing", "send", "sending"}
    /\ buf[d] # <<>>

\* Both endpoints were established and the threads were created.
Established == ctl \notin {"open_serial", "connect"} /\ reason \notin {"serial_failed", "tcp_failed"}

BothClosed == ser = "closed" /\ sock = "closed"

\* C1: in every reachable state and in each direction, the bytes the
\* destination has taken so far are a prefix of the bytes read so far from
\* that direction's source (nothing reordered, repeated or changed).
OrderPreserved == \A d \in Dir : IsPrefix(dst[d], ReadSoFar(d))

\* C1 witness: both directions have delivered several bytes, one of them
\* through more than one write call and a write that was taken in parts.
OrderPreservedWitness ==
    /\ Len(dst[T2S]) >= 2 /\ Len(dst[S2T]) >= 2
    /\ Len(wr[T2S]) >= 2
    /\ tpc[S2T] = "sending" /\ buf[S2T] # <<>> /\ Len(buf[S2T]) < Len(wr[S2T][Len(wr[S2T])])

\* C2: when a forwarding thread has ended, without any I/O fault of a device
\* in its direction, the number of bytes its destination took equals the
\* number of bytes it read from its source.
NoByteLoss ==
    \A d \in Dir :
        (tpc[d] = "done" /\ cause[d] # "io") => Len(dst[d]) = Len(ReadSoFar(d))

\* C3: once either forwarding thread has ended with Closed or Error, the
\* session eventually reaches the state where both endpoints are closed and
\* no thread runs, without an interrupt being needed.
TeardownOnOutcome ==
    (\E d \in Dir : Outcome(d) # "pending") ~> (BothClosed /\ \A d \in Dir : ~Running(d))

\* C4: after both endpoints were established, both are closed if and only if
\* some forwarding thread has reported Closed or Error.
SessionInvariant ==
    Established => (BothClosed <=> \E d \in Dir : Outcome(d) # "pending")

\* C5: when the controller has finished its shutdown (both endpoints closed,
\* "Bridge stopped." printed) no forwarding thread is still running.
NoTaskOutlivesClosure ==
    ctl = "stopped" => \A d \in Dir : ~Running(d)

\* C6: the controller never closes the destination of a direction while the
\* thread of that direction holds a chunk it has read and not yet written.
NoWriteCutOff ==
    \A d \in Dir : HoldsChunk(d) => Dest(d) # "closed"

\* C7: when the process has exited after an interrupt, both endpoints are
\* closed and both forwarding threads have completed.
GracefulInterrupt ==
    (ctl = "exited" /\ reason = "interrupted") =>
        (BothClosed /\ \A d \in Dir : tpc[d] = "done")

\* C8: when an endpoint fails to establish, main returns with no forwarding
\* thread started and no endpoint left open.
EstablishFailureReleases ==
    reason \in {"serial_failed", "tcp_failed"} =>
        /\ ctl = "exited"
        /\ \A d \in Dir : tpc[d] = "idle"
        /\ ser # "open" /\ sock # "open"
        /\ (reason = "tcp_failed" => ser = "closed")

\* C8 witness: the connect failed after the serial port had been opened.
EstablishFailureWitness ==
    reason = "tcp_failed" /\ ser = "closed" /\ closes["ser"] = 1

\* C9: no write call carries zero bytes, in either direction, also after
\* reads and polls that gave no data.
NoEmptyWrite ==
    \A d \in Dir : \A i \in 1..Len(wr[d]) : wr[d][i] # <<>>

\* C9 witness: recv has returned empty, a serial poll has found nothing
\* waiting, and both directions have issued writes.
NoEmptyWriteWitness ==
    /\ rd[T2S] # <<>> /\ rd[T2S][Len(rd[T2S])] = <<>> /\ Outcome(T2S) = "Closed"
    /\ polls >= 1
    /\ wr[T2S] # <<>> /\ wr[S2T] # <<>>

Trace(d) == <<tpc[d], cause[d], rd[d], wr[d], dst[d], acc[d]>>

\* C11: a forwarding thread that has ended has exactly one outcome, Closed
\* or Error, and from then on it does no read or write, keeps its outcome
\* and is not started again.
SingleOutcome ==
    /\ [](\A d \in Dir : tpc[d] = "done" => Outcome(d) \in {"Closed", "Error"} /\ cause[d] # "none")
    /\ [][\A d \in Dir : tpc[d] \in {"done", "killed"} => Trace(d)' = Trace(d)]_vars

\* C11 witness: both threads have ended, one with Closed and one with Error,
\* after having forwarded data, and main is still going round its loop.
SingleOutcomeWitness ==
    /\ ctl = "sleep"
    /\ Outcome(T2S) = "Closed" /\ Outcome(S2T) = "Error"
    /\ dst[T2S] # <<>> /\ dst[S2T] # <<>>

\* The last read of direction d gave no data (recv returned empty).
EmptyRead(d) == rd[d] # <<>> /\ rd[d][Len(rd[d])] = <<>>

\* Thread d ended because an operation on its source raised while the
\* endpoint was open: at a read position the thread holds no chunk.
SourceRaised(d) == tpc[d] = "done" /\ cause[d] = "io" /\ buf[d] = <<>>

\* C12 as claimed: in each direction, a thread whose source was closed by the
\* peer (recv returned empty; the serial device went away under in_waiting
\* or read) has ended with Closed once it is past the read.
ClosureDetected ==
    /\ (EmptyRead(T2S) /\ tpc[T2S] \notin {"test", "killed"}) => Outcome(T2S) = "Closed"
    /\ SourceRaised(S2T) => Outcome(S2T) = "Closed"

\* C12 amended: closure is detected for the network source only.  When recv
\* returns empty, which it does only after the peer has closed, that read is
\* the last one and tcp_to_serial ends with Closed; serial_to_tcp never ends
\* with Closed.
ClosureDetectedTcpOnly ==
    /\ EmptyRead(T2S) =>
          /\ peerClosed
          /\ tpc[T2S] \in {"test", "killed"} \/ Outcome(T2S) = "Closed"
    /\ \A i \in 1..(Len(rd[T2S]) - 1) : rd[T2S][i] # <<>>
    /\ Outcome(T2S) = "Closed" => EmptyRead(T2S)
    /\ Outcome(S2T) # "Closed"

\* C12 witness: tcp_to_serial has forwarded data and ended with Closed on
\* the peer's close, and serial_to_tcp has ended on a lost serial device.
ClosureDetectedWitness ==
    /\ Outcome(T2S) = "Closed" /\ EmptyRead(T2S) /\ dst[T2S] # <<>>
    /\ SourceRaised(S2T) /\ Outcome(S2T) = "Error"

\* A step of serial_to_tcp itself that is neither a device fault nor main's.
OwnStep(d) == tpc'[d] # tpc[d] /\ cause'[d] # "io" /\ ctl' = ctl

\* An empty poll: the thread goes to its sleep, reads and writes nothing,
\* and both endpoints stay as they are.
EmptyPollStep ==
    (tpc[S2T] = "poll" /\ ser = "open" /\ src[S2T] = <<>> /\ OwnStep(S2T)) =>
        (tpc'[S2T] = "sleep" /\ wr' = wr /\ dst' = dst /\ rd' = rd /\ ser' = ser /\ sock' = sock)

\* The sleep leads back to the poll.
BackoffStep ==
    (tpc[S2T] = "sleep" /\ OwnStep(S2T)) =>
        (tpc'[S2T] = "poll" /\ wr' = wr /\ dst' = dst /\ rd' = rd)

\* A poll that finds data goes on to read it.
DataPollStep ==
    (tpc[S2T] = "poll" /\ ser = "open" /\ src[S2T] # <<>> /\ OwnStep(S2T)) =>
        tpc'[S2T] = "size"

\* C13: a poll of the open serial port that finds nothing waiting leaves the
\* thread alive in its sleep, issues no read and no write, and leaves both
\* endpoints as they are; the sleep leads back to the poll; a poll that
\* finds data goes on to read it, however many empty polls came before.
TimeoutTolerated == [][EmptyPollStep /\ BackoffStep /\ DataPollStep]_vars

\* C13 witness: after as many empty polls as are counted, with no write
\* made so far, the thread has found data waiting and goes on to read it.
TimeoutToleratedWitness ==
    /\ polls = MaxPolls
    /\ wr[S2T] = <<>> /\ dst[S2T] = <<>>
    /\ tpc[S2T] = "size" /\ src[S2T] # <<>>
    /\ ser = "open" /\ sock = "open" /\ ctl \in {"loop", "sleep"}

\* The reads of direction d that returned data, in order.
DataReads(d) == SelectSeq(rd[d], LAMBDA c : c # <<>>)

\* C14: in each direction the write calls so far are, one for one and in
\* order, the chunks of the reads that returned data; at most the last read
\* has no write yet, and only while the thread is between that read and its
\* write call, so that every write is issued before the next read.
OneWritePerRead ==
    \A d \in Dir :
        LET reads == DataReads(d) IN
        /\ Len(wr[d]) <= Len(reads)
        /\ Len(reads) <= Len(wr[d]) + 1
        /\ \A i \in 1..Len(wr[d]) : wr[d][i] = reads[i]
        /\ Len(reads) = Len(wr[d]) + 1 => tpc[d] \in {"test", "write", "send", "killed"}

\* C14 witness: tcp_to_serial has passed on a read of two bytes and a read
\* of one byte as two writes, and serial_to_tcp two reads as two writes.
OneWritePerReadWitness ==
    /\ wr[T2S] = << <<1, 2>>, <<3>> >>
    /\ rd[T2S] = wr[T2S]
    /\ Len(wr[S2T]) = 2 /\ rd[S2T] = wr[S2T]

Endpoint == {"sock", "ser"}

\* C15: the socket is read only by tcp_to_serial and written only by
\* serial_to_tcp, the serial port is read only by serial_to_tcp and written
\* only by tcp_to_serial; no endpoint is read by both threads, none is read
\* and written by the same thread.
AccessDiscipline ==
    /\ acc[T2S] \subseteq {<<"sock", "read">>, <<"ser", "write">>}
    /\ acc[S2T] \subseteq {<<"ser", "read">>, <<"sock", "write">>}
    /\ \A e \in Endpoint : Cardinality({d \in Dir : <<e, "read">> \in acc[d]}) <= 1
    /\ \A e \in Endpoint : \A d \in Dir : ~(<<e, "read">> \in acc[d] /\ <<e, "write">> \in acc[d])

\* C15 witness: both threads have read their source and written their
\* destination.
AccessDisciplineWitness ==
    /\ acc[T2S] = {<<"sock", "read">>, <<"ser", "write">>}
    /\ acc[S2T] = {<<"ser", "read">>, <<"sock", "write">>}
    /\ dst[T2S] # <<>> /\ dst[S2T] # <<>>

\* C16: in both directions every read that returns data returns between 1
\* and ChunkSize bytes, and every forwarded write carries between 1 and
\* ChunkSize bytes, however many bytes are waiting at the source.
ChunkBound ==
    \A d \in Dir :
        /\ \A i \in 1..Len(rd[d]) : rd[d][i] # <<>> => Len(rd[d][i]) \in 1..ChunkSize
        /\ \A i \in 1..Len(wr[d]) : Len(wr[d][i]) \in 1..ChunkSize

\* The thread is inside a write call (ser.write or sendall).
InWrite(d) == tpc[d] \in {"writing", "sending"}

\* C17: in both directions, while a write call is running the bytes the
\* destination has taken plus the bytes the call still holds are exactly the
\* bytes handed to the write calls; whenever the thread is outside a write
\* call and alive, every byte of every write call has been taken (so the next
\* read is issued only after the whole chunk was written); a thread that
\* ended with bytes of a write not taken ended with an error.
PartialWriteRetried ==
    \A d \in Dir :
        LET written == Flatten(wr[d]) IN
        /\ InWrite(d) => buf[d] # <<>> /\ dst[d] \o buf[d] = written
        /\ (Running(d) /\ ~InWrite(d)) => dst[d] = written
        /\ (tpc[d] = "done" /\ dst[d] # written) =>
               /\ cause[d] \in {"io", "closed"}
               /\ Outcome(d) = "Error"
               /\ dst[d] \o buf[d] = written

\* C17 witness: in both directions a write call has had part of its chunk
\* taken and is still running with the rest; the first direction has
\* completed a write before.
PartialWriteRetriedWitness ==
    /\ \A d \in Dir : /\ InWrite(d) /\ buf[d] # <<>>
                       /\ Len(buf[d]) < Len(wr[d][Len(wr[d])])
    /\ Len(wr[T2S]) = 2 /\ Len(wr[S2T]) = 1

\* A step that closes an endpoint (a close() call, or open becoming closed).
ClosesEndpoint(e) == closes'[e] # closes[e]
SockCloses == ClosesEndpoint("sock") \/ (sock = "open" /\ sock' = "closed")
SerCloses == ClosesEndpoint("ser") \/ (ser = "open" /\ ser' = "closed")

\* A step of a forwarding thread closes nothing.
ThreadStepClosesNothing == (SockCloses \/ SerCloses) => (tpc' = tpc /\ cause' = cause)

\* Once both endpoints are established, an endpoint is closed only by the
\* shutdown steps of main, entered from the wait loop by the interrupt.
ShutdownClosesOnly ==
    (Established /\ (SockCloses \/ SerCloses)) =>
        (reason = "interrupted" /\ ctl = (IF SockCloses THEN "close_sock" ELSE "close_ser"))

\* C18: no step of a forwarding thread closes the socket or the serial port,
\* whatever the thread's outcome; after both endpoints are established an
\* endpoint goes from open to closed only in main's shutdown steps, which
\* run only after the wait loop has been left.
OnlyControllerCloses == [][ThreadStepClosesNothing /\ ShutdownClosesOnly]_vars

\* C18 witness: both threads have ended, one Closed and one Error, and the
\* shutdown has closed the socket and is about to close the serial port.
OnlyControllerClosesWitness ==
    /\ ctl = "close_ser" /\ sock = "closed" /\ ser = "open"
    /\ closes = [sock |-> 1, ser |-> 0]
    /\ Outcome(T2S) = "Closed" /\ Outcome(S2T) = "Error"

\* The thread ended because an operation on an endpoint raised.
EndedByError(d) == tpc[d] = "done" /\ cause[d] \in {"io", "closed"}

\* C19: serial_to_tcp never ends normally: whenever it has ended, an
\* operation on the serial port or the socket raised, so without such an
\* error it is still running (or was abandoned at process exit); tcp_to_serial
\* ends either by such an error or normally, and it ends normally exactly
\* when recv returned empty: after the empty recv its only step is the exit,
\* with no further read or write.
NoNormalExit ==
    /\ tpc[S2T] = "done" => EndedByError(S2T)
    /\ cause[S2T] \in {"none", "io", "closed"}
    /\ cause[S2T] = "none" => tpc[S2T] # "done"
    /\ tpc[T2S] = "done" => (EndedByError(T2S) \/ cause[T2S] = "eof")
    /\ cause[T2S] = "eof" =>
          /\ tpc[T2S] = "done"
          /\ EmptyRead(T2S)
          /\ Len(wr[T2S]) = Len(rd[T2S]) - 1
    /\ (EmptyRead(T2S) /\ Running(T2S)) => (tpc[T2S] = "test" /\ cause[T2S] = "none")

\* C19 witness: tcp_to_serial has ended normally on an empty recv while
\* serial_to_tcp, with nothing left to forward and idle polls behind it, is
\* still going round its loop.
NoNormalExitWitness ==
    /\ Outcome(T2S) = "Closed" /\ wr[T2S] # <<>>
    /\ tpc[S2T] = "sleep" /\ cause[S2T] = "none"
    /\ Len(dst[S2T]) = MaxBytes /\ src[S2T] = <<>> /\ polls = MaxPolls
    /\ ser = "open" /\ sock = "open"

\* main of the test client is over: it returned or it raised to its caller.
ClientOver == cpc \in {"returned", "raised"}

\* C20: whichever way the test client leaves its try block (connection
\* refused, peer closed, quit/exit typed, interrupt, any other error), its
\* socket has been closed, once, when main is over; the first thing it sends
\* is the handshake, sent once and before the first recv; and it has sent at
\* most one user message per non-empty chunk received, each one after a
\* non-empty chunk.
ClientReleasesSocket ==
    /\ ClientOver => (csock = "closed" /\ ccloses = 1 /\ exitPath # "none")
    /\ (exitPath # "none" /\ ~ClientOver) => (cpc = "finally" /\ ccloses = 0)
    /\ csock = "closed" => ClientOver
    /\ cpc \in {"recv", "test", "input", "check", "send"} => (tx # <<>> /\ csock = "connected")
    /\ tx # <<>> =>
          /\ tx[1] = Hello
          /\ \A i \in 2..Len(tx) : tx[i] # Hello
          /\ Len(tx) - 1 <= rxn
    /\ cpc = "send" => (data = "chunk" /\ Len(tx) <= rxn)
    /\ rxn > 0 => tx # <<>>

\* C20 witness: after the handshake and a user message for every chunk but
\* the last, the user typed " Quit " and main has returned with the socket
\* closed.
ClientReleasesSocketWitness ==
    /\ cpc = "returned" /\ exitPath = "quit"
    /\ msg = <<" ", "Q", "u", "i", "t", " ">>
    /\ rxn = MaxRounds /\ Len(tx) = MaxRounds
    /\ csock = "closed"
====
